---- MODULE Spec2Model ----
(***************************************************************************)
(* Model of the ORBIT worker (src/index.js): the POST /process handler,    *)
(* its temporary audio file, and the "entries" table it updates.           *)
(*                                                                         *)
(* JavaScript values are tagged records: Str(s) carries a string as a      *)
(* sequence of characters, Num(n) a number, Arr(a) an array, and Undefined,*)
(* Null and Obj stand for undefined, null and a plain object.              *)
(* One action is one run of the handler between two await points.          *)
(***************************************************************************)
EXTENDS Integers, Sequences, FiniteSets, TLC

(***************************************************************************)
(* Bounds of the model.                                                    *)
(***************************************************************************)
\* concurrent invocations the host serves at once
NumProcs == 2
\* requests the host accepts over a run (repeated invocations)
MaxRequests == 2

Procs == 1..NumProcs

(***************************************************************************)
(* JavaScript values.                                                      *)
(***************************************************************************)
Undefined == [k |-> "undefined"]
Null == [k |-> "null"]
Obj == [k |-> "object"]
Str(s) == [k |-> "string", s |-> s]
Num(n) == [k |-> "number", n |-> n]
Arr(a) == [k |-> "array", a |-> a]

\* the operand test of !x and of x || y
Falsy(v) ==
  \/ v.k \in {"undefined", "null"}
  \/ v.k = "string" /\ v.s = <<>>
  \/ v.k = "number" /\ v.n = 0

\* x || y
OrElse(x, y) == IF Falsy(x) THEN y ELSE x

\* a thrown value: only its message is observed (err.message)
Error(m) == [message |-> m]

\* messages are a text and a number
Msg(text, n) == <<text, n>>

EngineError == Error(Msg("whisper: engine failure", 0))
UnlinkError == Error(Msg("ENOENT: no such file or directory, unlink", 0))
UpdateError == Error(Msg("store: update refused", 0))
UpdateRejected == Error(Msg("store: request failed", 0))
FailedUpdateRejected == Error(Msg("store: failed-status request failed", 0))
SyntaxError == Error(Msg("SyntaxError: JSON.parse", 0))
TypeError == Error(Msg("TypeError: cannot read properties of undefined", 0))

Min(a, b) == IF a < b THEN a ELSE b

\* String.prototype.slice(0, n) for n >= 0
Slice0(s, n) == SubSeq(s, 1, Min(n, Len(s)))

\* the summary fallback keeps this many characters of the transcript
SummaryFallbackLen == 200

(***************************************************************************)
(* Transcript normalization (index.js 65-67).                              *)
(***************************************************************************)
\* a whisper segment; an absent field reads as undefined
Seg(speech, text) == [speech |-> speech, text |-> text]

\* t => t.speech || t.text || ''
SegText(t) == OrElse(OrElse(t.speech, t.text), Str(<<>>))

\* the string Array.prototype.join makes of one element
JoinItem(v) == IF v.k = "string" THEN v.s ELSE <<>>

\* Array.prototype.join(" ") over already mapped elements
RECURSIVE JoinSpace(_)
JoinSpace(a) ==
  IF a = <<>> THEN <<>>
  ELSE IF Len(a) = 1 THEN JoinItem(a[1])
  ELSE JoinItem(a[1]) \o <<" ">> \o JoinSpace(Tail(a))

\* JSON.stringify of a value that is neither array nor string
JsonStringify(v) ==
  CASE v.k = "undefined" -> Undefined
    [] v.k = "null" -> Str(<<"n", "u", "l", "l">>)
    [] v.k = "object" -> Str(<<"{", "}">>)
    [] OTHER -> Str(<<"?">>)

MapSegText(a) == [i \in 1..Len(a) |-> SegText(a[i])]

TranscriptText(transcript) ==
  IF transcript.k = "array" THEN Str(JoinSpace(MapSegText(transcript.a)))
  ELSE IF transcript.k = "string" THEN transcript
  ELSE JsonStringify(transcript)

\* x.length: a TypeError on undefined and null, undefined on a plain object
HasLength(v) == v.k \notin {"undefined", "null"}
LengthOf(v) ==
  CASE v.k = "string" -> Num(Len(v.s))
    [] v.k = "array" -> Num(Len(v.a))
    [] OTHER -> Undefined

(***************************************************************************)
(* The temporary file path (index.js 44).                                  *)
(***************************************************************************)
\* the components of a path, split at "/"
RECURSIVE SplitPath(_, _, _)
SplitPath(toks, cur, acc) ==
  IF toks = <<>> THEN Append(acc, cur)
  ELSE IF Head(toks) = "/" THEN SplitPath(Tail(toks), <<>>, Append(acc, cur))
  ELSE SplitPath(Tail(toks), Append(cur, Head(toks)), acc)

\* path.normalize on components: drop "" and ".", let ".." take back one
RECURSIVE NormalizeParts(_, _)
NormalizeParts(parts, stack) ==
  IF parts = <<>> THEN stack
  ELSE LET c == Head(parts) IN
    IF c = <<>> \/ c = <<".">> THEN NormalizeParts(Tail(parts), stack)
    ELSE IF c = <<"..">>
      THEN NormalizeParts(Tail(parts),
             IF stack = <<>> THEN stack ELSE SubSeq(stack, 1, Len(stack) - 1))
    ELSE NormalizeParts(Tail(parts), Append(stack, c))

\* the directory of index.js
Dirname == <<"/", "srv">>

\* path.join(a, b)
PathJoin(a, b) == NormalizeParts(SplitPath(a \o <<"/">> \o b, <<>>, <<>>), <<>>)

\* path.join(__dirname, `temp_${entry_id}.webm`)
TempPath(entry_id) == PathJoin(Dirname, <<"temp_">> \o entry_id.s \o <<".webm">>)

(***************************************************************************)
(* Summary extraction (index.js 99-106).                                   *)
(***************************************************************************)
Positions(text, tok) == {i \in 1..Len(text) : text[i] = tok}

SetMin(S) == CHOOSE x \in S : \A y \in S : x <= y
SetMax(S) == CHOOSE x \in S : \A y \in S : y <= x

\* responseText.match(/\{[\s\S]*\}/): from the first "{" to the last "}"
\* after it; Null when there is none
JsonMatch(text) ==
  LET opens == Positions(text, "{") IN
  IF opens = {} THEN Null
  ELSE LET i == SetMin(opens)
           closes == {j \in Positions(text, "}") : j > i}
       IN IF closes = {} THEN Null
          ELSE Str(SubSeq(text, i, SetMax(closes)))

\* the members a summarization answer is built from: "S" is the text
\* "summary":"Ok" and "I" the text "insights":["x"]
MemberTokens == {"S", "I"}
SummaryOfS == Str(<<"O", "k">>)
InsightsOfI == Arr(<<Str(<<"x">>)>>)

\* whether JSON.parse accepts the text: an object of known members
JsonValid(m) ==
  /\ Len(m) >= 2
  /\ m[1] = "{"
  /\ m[Len(m)] = "}"
  /\ \A i \in 2..(Len(m) - 1) : m[i] \in MemberTokens

\* JSON.parse of an accepted text
JsonParse(m) ==
  [summary |-> IF Positions(m, "S") # {} THEN SummaryOfS ELSE Undefined,
   insights |-> IF Positions(m, "I") # {} THEN InsightsOfI ELSE Undefined]

\* { summary: transcriptText.slice(0, 200), insights: [] }; slice is a
\* TypeError when transcriptText is undefined
FallbackThrows(transcriptText) == transcriptText.k # "string"
Fallback(transcriptText) ==
  [summary |-> Str(Slice0(transcriptText.s, SummaryFallbackLen)),
   insights |-> Arr(<<>>)]

\* lines 102-106 as a whole: the parsed object, or the error thrown
ParseSummary(responseText, transcriptText) ==
  LET jsonMatch == JsonMatch(responseText) IN
  IF jsonMatch.k = "string"
  THEN IF JsonValid(jsonMatch.s)
       THEN [ok |-> TRUE, parsed |-> JsonParse(jsonMatch.s)]
       ELSE [ok |-> FALSE, err |-> SyntaxError]
  ELSE IF FallbackThrows(transcriptText)
       THEN [ok |-> FALSE, err |-> TypeError]
       ELSE [ok |-> TRUE, parsed |-> Fallback(transcriptText)]

(***************************************************************************)
(* Inputs: request bodies and the answers of the outside services.         *)
(***************************************************************************)
E1 == Str(<<"e1">>)
\* an entry id that contains path separators
ETraversal == Str(<<"x", "/", "..", "/", "temp_", "e1">>)
U1 == Str(<<"u1">>)
U2 == Str(<<"u2">>)

EntryIds == {E1, ETraversal}
AudioUrls == {U1, U2}

\* req.body as express.json() leaves it: an object, fields possibly absent
Bodies ==
  [entry_id : EntryIds \cup {Undefined}, audio_url : AudioUrls \cup {Undefined}]

\* answers of fetch(audio_url): [ok, status]
AudioResponses == {[ok |-> TRUE, status |-> 200], [ok |-> FALSE, status |-> 404]}

\* a transcript longer than the summary fallback keeps
LongText == [i \in 1..(SummaryFallbackLen + 1) |-> "a"]

\* values the transcription engine resolves with
Transcripts ==
  { Str(<<"h", "i">>),
    Str(LongText),
    Arr(<<Seg(Str(<<"a">>), Undefined), Seg(Str(<<"b">>), Undefined)>>),
    Arr(<<Seg(Undefined, Str(<<"c">>)), Seg(Str(<<>>), Str(<<"d">>))>>),
    Arr(<<>>),
    Obj,
    Undefined }

\* answers of the summarization API: [ok, status, text]; text is the first
\* candidate's text, "" when the answer carries none (index.js 99)
GeminiTexts ==
  { <<>>,
    <<"p">>,
    <<"p", "{", "S", "I", "}", "p">>,
    <<"{", "I", "}">>,
    <<"{", "p", "}">>,
    <<"{", "S", "}", "p", "{", "p", "}">> }

GeminiResponses ==
  {[ok |-> FALSE, status |-> 500, text |-> <<>>]}
    \cup {[ok |-> TRUE, status |-> 200, text |-> t] : t \in GeminiTexts}

\* the inputs the concurrent specification draws from
CommonBodies ==
  { [entry_id |-> E1, audio_url |-> U1],
    [entry_id |-> E1, audio_url |-> U2],
    [entry_id |-> ETraversal, audio_url |-> U1],
    [entry_id |-> Undefined, audio_url |-> U1],
    [entry_id |-> E1, audio_url |-> Undefined] }
CommonTranscripts == {Str(<<"h", "i">>)}
CommonGeminiResponses ==
  { [ok |-> FALSE, status |-> 500, text |-> <<>>],
    [ok |-> TRUE, status |-> 200, text |-> <<"p", "{", "S", "I", "}", "p">>] }

\* how one update of the entries table ends: applied with { error: null },
\* refused with { error }, or the client call rejects
UpdateOutcomes == {"applied", "error", "throws"}

(***************************************************************************)
(* Decisions of the handler.                                               *)
(***************************************************************************)
InvalidEntryIdOnly(body) == Falsy(body.entry_id)

\* !entry_id || !audio_url (index.js 28)
Invalid(body) == Falsy(body.entry_id) \/ Falsy(body.audio_url)

DownloadFailsNever(audioRes) == FALSE

\* !audioRes.ok (index.js 37)
DownloadFails(audioRes) == ~audioRes.ok

\* !geminiRes.ok (index.js 92)
GeminiFails(geminiRes) == ~geminiRes.ok

\* the errors of index.js 38 and 95
DownloadError(audioRes) == Error(Msg("Failed to download audio: ", audioRes.status))
GeminiError(geminiRes) == Error(Msg("Gemini API failed: ", geminiRes.status))

\* res.status(400).json(...) (index.js 29)
BadRequest == [status |-> 400, body |-> [error |-> "entry_id and audio_url required"]]

\* res.json({ success, transcript_length, summary_length }) (index.js 130-134)
Success(transcript, parsed) ==
  [status |-> 200,
   body |-> [success |-> TRUE,
             transcript_length |-> LengthOf(transcript),
             summary_length |-> LengthOf(parsed.summary)]]

ProcessingFailedNoDetails(err, dbErr) ==
  [status |-> 500, body |-> [error |-> "processing_failed", details |-> dbErr.message]]

\* res.status(500).json({ error, details: err.message }) (index.js 149-152);
\* dbErr is what the failed-status update threw, if anything
ProcessingFailed(err, dbErr) ==
  [status |-> 500, body |-> [error |-> "processing_failed", details |-> err.message]]

\* the fields of the success-path update (index.js 115-120)
CompletedFields(transcriptText, parsed) ==
  [transcript |-> transcriptText,
   summary |-> parsed.summary,
   key_insights |-> parsed.insights,
   status |-> Str(<<"completed">>)]

FailedFieldsRequeue ==
  [transcript |-> Undefined, summary |-> Undefined, key_insights |-> Undefined,
   status |-> Str(<<"pending">>)]

\* the fields of the failure-path update (index.js 143); a field the object
\* does not name reads as undefined
FailedFields ==
  [transcript |-> Undefined, summary |-> Undefined, key_insights |-> Undefined,
   status |-> Str(<<"failed">>)]

\* update(fields).eq("id", id) on a row: JSON drops undefined fields, the
\* others overwrite the row's
ApplyUpdate(row, fields) ==
  [f \in DOMAIN row |-> IF fields[f].k = "undefined" THEN row[f] ELSE fields[f]]

(***************************************************************************)
(* State.                                                                  *)
(***************************************************************************)
VARIABLES
  pc,          \* where each invocation waits
  served,      \* requests accepted so far
  req,         \* req.body of the invocation
  transcript,  \* what whisper resolved with
  parsed,      \* the parsed summary object
  err,         \* the error the catch block received
  res,         \* the response sent, NoResponse before
  files,       \* the temporary files: path -> content, NoFile when absent
  store,       \* the entries table: id -> row
  heard,       \* history: the file content the engine read
  calls,       \* history: remote calls each invocation has issued
  passed,      \* history: steps of the invocation that succeeded
  wrote,       \* history: whether the invocation wrote its temporary file
  flipped      \* history: entries whose completed/failed status was changed

vars ==
  <<pc, served, req, transcript, parsed, err, res, files, store,
    heard, calls, passed, wrote, flipped>>

NoResponse == [status |-> 0]
NoFile == [audio |-> Undefined, owner |-> Undefined]
NoBody == [entry_id |-> Undefined, audio_url |-> Undefined]
NoParsed == [summary |-> Undefined, insights |-> Undefined]
NoError == Error(Msg("", 0))
NoCalls == [download |-> 0, transcribe |-> 0, summarize |-> 0, completed |-> 0, failed |-> 0]
NonePassed == [download |-> FALSE, transcribe |-> FALSE, summarize |-> FALSE, persist |-> FALSE]

Paths == {TempPath(e) : e \in EntryIds}

PendingRow ==
  [transcript |-> Null, summary |-> Null, key_insights |-> Null,
   status |-> Str(<<"pending">>)]

Terminal == {Str(<<"completed">>), Str(<<"failed">>)}

Init ==
  /\ pc = [i \in Procs |-> "idle"]
  /\ served = 0
  /\ req = [i \in Procs |-> NoBody]
  /\ transcript = [i \in Procs |-> Undefined]
  /\ parsed = [i \in Procs |-> NoParsed]
  /\ err = [i \in Procs |-> NoError]
  /\ res = [i \in Procs |-> NoResponse]
  /\ files = [p \in Paths |-> NoFile]
  /\ store = [e \in EntryIds |-> PendingRow]
  /\ heard = [i \in Procs |-> NoFile]
  /\ calls = [i \in Procs |-> NoCalls]
  /\ passed = [i \in Procs |-> NonePassed]
  /\ wrote = [i \in Procs |-> FALSE]
  /\ flipped = {}

(***************************************************************************)
(* Steps of the handler.                                                   *)
(***************************************************************************)
\* one update of the row of id: the table after it, and the history of
\* statuses that left completed or failed
StoreAfter(id, fields) == [store EXCEPT ![id] = ApplyUpdate(@, fields)]
FlippedAfter(id, fields) ==
  IF store[id].status \in Terminal /\ ApplyUpdate(store[id], fields).status # store[id].status
  THEN flipped \cup {id} ELSE flipped

\* a throw inside the try block: the catch block logs it and issues the
\* failed-status update (index.js 136-144)
Catch(i, e) ==
  /\ pc' = [pc EXCEPT ![i] = "markFailed"]
  /\ err' = [err EXCEPT ![i] = e]
  /\ calls' = [calls EXCEPT ![i].failed = @ + 1]

\* index.js 24-36: a request arrives; validation, then the download starts.
\* The invocation takes a slot whose invocation has responded, or the first
\* slot never used (unused slots are alike).
Receive(i, bodies) ==
  /\ pc[i] \in {"idle", "done"}
  /\ pc[i] = "idle" => \A j \in Procs : j < i => pc[j] # "idle"
  /\ served < MaxRequests
  /\ served' = served + 1
  /\ \E body \in bodies :
       /\ req' = [req EXCEPT ![i] = body]
       /\ IF Invalid(body)
          THEN /\ pc' = [pc EXCEPT ![i] = "done"]
               /\ res' = [res EXCEPT ![i] = BadRequest]
               /\ calls' = [calls EXCEPT ![i] = NoCalls]
          ELSE /\ pc' = [pc EXCEPT ![i] = "download"]
               /\ res' = [res EXCEPT ![i] = NoResponse]
               /\ calls' = [calls EXCEPT ![i] = [NoCalls EXCEPT !.download = 1]]
  /\ transcript' = [transcript EXCEPT ![i] = Undefined]
  /\ parsed' = [parsed EXCEPT ![i] = NoParsed]
  /\ err' = [err EXCEPT ![i] = NoError]
  /\ heard' = [heard EXCEPT ![i] = NoFile]
  /\ passed' = [passed EXCEPT ![i] = NonePassed]
  /\ wrote' = [wrote EXCEPT ![i] = FALSE]
  /\ UNCHANGED <<files, store, flipped>>

\* index.js 36-49: the download answers; on success the audio is written to
\* the temporary file and whisper is started
Downloaded(i) ==
  /\ pc[i] = "download"
  /\ \E audioRes \in AudioResponses :
       IF DownloadFails(audioRes)
       THEN /\ Catch(i, DownloadError(audioRes))
            /\ passed' = [passed EXCEPT ![i].download = audioRes.ok]
            /\ UNCHANGED <<files, wrote>>
       ELSE /\ files' = [files EXCEPT ![TempPath(req[i].entry_id)] =
                           [audio |-> req[i].audio_url, owner |-> req[i].entry_id]]
            /\ pc' = [pc EXCEPT ![i] = "whisper"]
            /\ passed' = [passed EXCEPT ![i].download = audioRes.ok]
            /\ wrote' = [wrote EXCEPT ![i] = TRUE]
            /\ calls' = [calls EXCEPT ![i].transcribe = @ + 1]
            /\ UNCHANGED err
  /\ UNCHANGED <<served, req, transcript, parsed, res, store, heard, flipped>>

\* inside whisper(tempPath): the engine opens the file
EngineReads(i) ==
  /\ pc[i] = "whisper"
  /\ heard' = [heard EXCEPT ![i] = files[TempPath(req[i].entry_id)]]
  /\ pc' = [pc EXCEPT ![i] = "whisperRun"]
  /\ UNCHANGED <<served, req, transcript, parsed, err, res, files, store,
                 calls, passed, wrote, flipped>>

\* values whisper can resolve with, given what the engine read
EngineResults(content, results) == IF content = NoFile THEN {Undefined} ELSE results

\* index.js 49-69: whisper settles; the file is unlinked, the transcript
\* normalized and the summarization request sent
Transcribed(i, results) ==
  /\ pc[i] = "whisperRun"
  /\ \/ /\ Catch(i, EngineError)
        /\ UNCHANGED <<transcript, files, passed>>
     \/ \E t \in EngineResults(heard[i], results) :
          IF files[TempPath(req[i].entry_id)] = NoFile
          THEN /\ Catch(i, UnlinkError)
               /\ UNCHANGED <<transcript, files, passed>>
          ELSE /\ files' = [files EXCEPT ![TempPath(req[i].entry_id)] = NoFile]
               /\ transcript' = [transcript EXCEPT ![i] = t]
               /\ passed' = [passed EXCEPT ![i].transcribe = TRUE]
               /\ pc' = [pc EXCEPT ![i] = "gemini"]
               /\ calls' = [calls EXCEPT ![i].summarize = @ + 1]
               /\ UNCHANGED err
  /\ UNCHANGED <<served, req, parsed, res, store, heard, wrote, flipped>>

\* index.js 92-121: the summarization API answers; the answer is parsed and
\* the success-path update issued
Summarized(i, responses) ==
  /\ pc[i] = "gemini"
  /\ \E geminiRes \in responses :
       IF GeminiFails(geminiRes)
       THEN /\ Catch(i, GeminiError(geminiRes))
            /\ passed' = [passed EXCEPT ![i].summarize = geminiRes.ok]
            /\ UNCHANGED parsed
       ELSE LET r == ParseSummary(geminiRes.text, TranscriptText(transcript[i])) IN
            IF r.ok
            THEN /\ parsed' = [parsed EXCEPT ![i] = r.parsed]
                 /\ passed' = [passed EXCEPT ![i].summarize = geminiRes.ok]
                 /\ pc' = [pc EXCEPT ![i] = "update"]
                 /\ calls' = [calls EXCEPT ![i].completed = @ + 1]
                 /\ UNCHANGED err
            ELSE /\ Catch(i, r.err)
                 /\ parsed' = parsed
                 /\ passed' = [passed EXCEPT ![i].summarize = geminiRes.ok]
  /\ UNCHANGED <<served, req, transcript, res, files, store, heard, wrote, flipped>>

\* index.js 113-134: the success-path update settles; the 200 response
Updated(i) ==
  /\ pc[i] = "update"
  /\ \E outcome \in UpdateOutcomes :
       LET fields == CompletedFields(TranscriptText(transcript[i]), parsed[i])
           id == req[i].entry_id
       IN
       CASE outcome = "applied" ->
              /\ store' = StoreAfter(id, fields)
              /\ flipped' = FlippedAfter(id, fields)
              /\ passed' = [passed EXCEPT ![i].persist = TRUE]
              /\ IF HasLength(transcript[i]) /\ HasLength(parsed[i].summary)
                 THEN /\ res' = [res EXCEPT ![i] = Success(transcript[i], parsed[i])]
                      /\ pc' = [pc EXCEPT ![i] = "done"]
                      /\ UNCHANGED <<err, calls>>
                 ELSE /\ Catch(i, TypeError)
                      /\ UNCHANGED res
         [] outcome = "error" ->
              /\ Catch(i, UpdateError)
              /\ UNCHANGED <<store, flipped, passed, res>>
         [] outcome = "throws" ->
              /\ Catch(i, UpdateRejected)
              /\ UNCHANGED <<store, flipped, passed, res>>
  /\ UNCHANGED <<served, req, transcript, parsed, files, heard, wrote>>

\* index.js 140-152: the failed-status update settles, its error or throw is
\* dropped, and the 500 response is sent
MarkedFailed(i) ==
  /\ pc[i] = "markFailed"
  /\ \E outcome \in UpdateOutcomes :
       /\ IF outcome = "applied"
          THEN /\ store' = StoreAfter(req[i].entry_id, FailedFields)
               /\ flipped' = FlippedAfter(req[i].entry_id, FailedFields)
          ELSE UNCHANGED <<store, flipped>>
       /\ res' = [res EXCEPT ![i] =
                    ProcessingFailed(err[i],
                      IF outcome = "throws" THEN FailedUpdateRejected ELSE NoError)]
  /\ pc' = [pc EXCEPT ![i] = "done"]
  /\ UNCHANGED <<served, req, transcript, parsed, err, files, heard, calls,
                 passed, wrote>>

\* the concurrent host: every slot serves requests, inputs from the common sets
Next ==
  \E i \in Procs :
    \/ Receive(i, CommonBodies)
    \/ Downloaded(i)
    \/ EngineReads(i)
    \/ Transcribed(i, CommonTranscripts)
    \/ Summarized(i, CommonGeminiResponses)
    \/ Updated(i)
    \/ MarkedFailed(i)

Spec == Init /\ [][Next]_vars

\* one slot serving one request after another, inputs from the full sets
NextValues ==
  \/ Receive(1, Bodies)
  \/ Downloaded(1)
  \/ EngineReads(1)
  \/ Transcribed(1, Transcripts)
  \/ Summarized(1, GeminiResponses)
  \/ Updated(1)
  \/ MarkedFailed(1)

SpecValues == Init /\ [][NextValues]_vars

(***************************************************************************)
(* Properties.                                                             *)
(***************************************************************************)
Responded(i) == pc[i] = "done"
Row(i) == store[req[i].entry_id]

\* the failures C1 lists: a non-2xx download, a transcription throw, a
\* non-2xx summarization answer, an error reported by the success-path update
ListedFailures ==
  {DownloadError(r) : r \in {x \in AudioResponses : ~x.ok}}
    \cup {GeminiError(r) : r \in {x \in GeminiResponses : ~x.ok}}
    \cup {EngineError, UpdateError}

\* C1: an invocation that ended in one of the listed failures answered 500
\* with error "processing_failed" and the failure's own message as details,
\* and issued the failed-status update exactly once, whatever became of
\* that update.
C1_FailureResponse ==
  \A i \in Procs :
    Responded(i) /\ err[i] \in ListedFailures =>
      /\ res[i] = [status |-> 500,
                   body |-> [error |-> "processing_failed", details |-> err[i].message]]
      /\ calls[i].failed = 1

\* C1 case: a listed failure was answered while the failed-status update
\* did not take effect
C1_Witness ==
  \E i \in Procs :
    /\ Responded(i)
    /\ err[i] \in ListedFailures
    /\ res[i].status = 500
    /\ Row(i).status # Str(<<"failed">>)

\* C2: a request whose body lacks entry_id or audio_url is answered 400 and
\* the invocation issues no download, transcription, summarization or store
\* update and writes no temporary file.
C2_InvalidBodyDoesNothing ==
  \A i \in Procs :
    pc[i] # "idle" /\ (req[i].entry_id = Undefined \/ req[i].audio_url = Undefined) =>
      /\ Responded(i)
      /\ res[i] = BadRequest
      /\ calls[i] = NoCalls
      /\ ~wrote[i]

\* C2 case: a body without audio_url was answered
C2_Witness ==
  \E i \in Procs :
    Responded(i) /\ req[i].audio_url = Undefined /\ res[i].status = 400

\* C3 as claimed: a status that is completed or failed is never changed by
\* a later write.
C3_TerminalStatusKept == flipped = {}

\* C3 amended: every status write sets completed or failed, so an entry that
\* has left pending never returns to pending (the status it holds may still
\* be overwritten by the other one).
C3_NeverBackToPending ==
  [][\A e \in EntryIds : store[e].status \in Terminal => store'[e].status \in Terminal]_vars

\* C3 case: an entry's completed or failed status was overwritten by the
\* other status
C3_Witness == \E e \in flipped : store[e].status \in Terminal

\* C4 as claimed: once an invocation has responded, the temporary file it
\* wrote no longer exists.
C4_TempFileRemoved ==
  \A i \in Procs :
    Responded(i) /\ wrote[i] => files[TempPath(req[i].entry_id)] = NoFile

\* C5 as claimed: once the summarization API has answered with a success
\* status, the job goes on to the completed write whatever the answer's text
\* (here for transcripts that are plain strings).
C5_ResponseTextNeverFails ==
  \A i \in Procs :
    passed[i].summarize /\ transcript[i].k = "string" => calls[i].completed = 1

\* C6 as claimed: a 200 response reports the length of the transcript string
\* and of the summary written to the entry record, for string and
\* segment-list engine outputs.
C6_LengthsMatchRecord ==
  \A i \in Procs :
    Responded(i) /\ res[i].status = 200 /\ transcript[i].k \in {"string", "array"} =>
      /\ res[i].body.transcript_length = LengthOf(Row(i).transcript)
      /\ res[i].body.summary_length = LengthOf(Row(i).summary)

\* the text field C7 names: speech, or text when speech is absent
C7_SegField(t) ==
  IF t.speech # Undefined THEN t.speech
  ELSE IF t.text # Undefined THEN t.text ELSE Str(<<>>)

C8_SequentialSteps ==
  \A i \in Procs :
    /\ \A step \in DOMAIN NoCalls : calls[i][step] <= 1
    /\ calls[i].transcribe = 1 => calls[i].download = 1 /\ passed[i].download
    /\ calls[i].summarize = 1 => calls[i].transcribe = 1 /\ passed[i].transcribe
    /\ calls[i].completed = 1 => calls[i].summarize = 1 /\ passed[i].summarize
    /\ passed[i].persist => calls[i].completed = 1

\* C8 case: an invocation whose download failed has responded
C8_Witness ==
  \E i \in Procs :
    Responded(i) /\ calls[i].download = 1 /\ ~passed[i].download

\* C9 as claimed (its last clause): the engine of an invocation only ever
\* reads a temporary file written for the same entry_id.
C9_DistinctIdsIsolated ==
  \A i \in Procs : heard[i] # NoFile => heard[i].owner = req[i].entry_id

\* C9, its first clause: two invocations for the same entry_id have raced;
\* one persisted a transcript of the other's audio, or ended in the unlink
\* error although every remote call succeeded
C9_SameIdRacePersisted ==
  \E i \in Procs :
    /\ Responded(i) /\ res[i].status = 200
    /\ heard[i].owner = req[i].entry_id
    /\ heard[i].audio # req[i].audio_url

C9_SameIdRaceFailed ==
  \E i \in Procs :
    /\ Responded(i) /\ res[i].status = 500
    /\ err[i] = UnlinkError
    /\ heard[i].owner = req[i].entry_id

\* C10 as claimed: an invocation whose success-path update took effect
\* issues no failed-status update and answers 200 (here for transcripts that
\* are plain strings).
C10_CompletedExcludesFailed ==
  \A i \in Procs :
    passed[i].persist /\ transcript[i].k = "string" =>
      /\ calls[i].failed = 0
      /\ res[i].status \in {0, 200}

====
